---- MODULE Spec2Model ----
(***************************************************************************)
(* Model of models/fingpt.py: the process-wide model handle cache          *)
(* (loaded, get_model_and_tokenizer), the likelihood evaluator             *)
(* (fingpt_nll_fn) and the sampling orchestrator (fingpt_completion_fn).   *)
(*                                                                         *)
(* Spec    : two threads calling into the module, one step per statement   *)
(*           of get_model_and_tokenizer, sharing the dictionary `loaded`.  *)
(* SpecFn  : one call of fingpt_nll_fn or fingpt_completion_fn, statement  *)
(*           by statement, over bounded inputs.                            *)
(***************************************************************************)
EXTENDS Integers, Sequences, FiniteSets, TLC

\* ------------------------------------------------------------------ bounds
MaxCalls == 3          \* calls the threads make in Spec, in total
MaxGen == 1            \* longest continuation model.generate returns in SpecFn

Threads == {1, 2}
Names == {"fingpt", "other"}
Ops == {"resolve", "nll", "completion"}

VARIABLES
    \* ---- Spec: shared cache and per-thread frames
    loaded,        \* the module-level dict: identifier -> (model, tokenizer)
    pc,            \* per thread: the statement it is at
    op,            \* per thread: which entry point it called
    name,          \* per thread: model_name
    cache_model,   \* per thread: the cache_model argument
    tokenizer,     \* per thread: local `tokenizer` of get_model_and_tokenizer
    model,         \* per thread: local `model` of get_model_and_tokenizer
    ret,           \* per thread: value returned by get_model_and_tokenizer
    err,           \* per thread: exception raised by the call, or "none"
    calls,         \* calls started so far, over all threads
    nextObj,       \* identity of the next object constructed
    hit,           \* per thread: identifier was in `loaded` when line 38 ran
    ntoks,         \* per thread: tokenizers constructed by this resolve
    nloads,        \* per thread: models loaded by this resolve
    \* ---- SpecFn: one call of fingpt_nll_fn / fingpt_completion_fn
    fpc,           \* statement the call is at
    fn             \* record of the call's arguments and locals

cacheVars == <<loaded, pc, op, name, cache_model, tokenizer, model, ret, err,
               calls, nextObj, hit, ntoks, nloads>>
fnVars == <<fpc, fn>>
vars == <<loaded, pc, op, name, cache_model, tokenizer, model, ret, err,
          calls, nextObj, hit, ntoks, nloads, fpc, fn>>

None == [id |-> 0]
NoHandle == <<None, None>>

\* ------------------------------------------------------- the handle cache
\* line 38: `model_name in loaded`
InLoaded_never(ld, model_name) == FALSE
InLoaded(ld, model_name) == model_name \in DOMAIN ld

\* line 39: `loaded[model_name]`
CacheLookup(ld, model_name) == ld[model_name]

\* lines 20-35: a tokenizer object; pad_token aliased to eos_token
NewTokenizer(obj) == [id |-> obj, pad_is_eos |-> TRUE]

\* lines 42-51: base model, adapter applied, eval mode
LoadModel(obj) == [id |-> obj, adapter |-> TRUE, eval |-> TRUE]

\* lines 52-53: `if cache_model: loaded[model_name] = model, tokenizer`
CacheStore_always(ld, model_name, handle, flag) ==
    [n \in DOMAIN ld \cup {model_name} |-> IF n = model_name THEN handle ELSE ld[n]]
CacheStore_evict(ld, model_name, handle, flag) ==
    IF flag THEN [n \in {model_name} |-> handle] ELSE ld
CacheStore_inverted(ld, model_name, handle, flag) ==
    IF ~flag
    THEN [n \in DOMAIN ld \cup {model_name} |-> IF n = model_name THEN handle ELSE ld[n]]
    ELSE ld
CacheStore(ld, model_name, handle, flag) ==
    IF flag
    THEN [n \in DOMAIN ld \cup {model_name} |-> IF n = model_name THEN handle ELSE ld[n]]
    ELSE ld

\* ------------------------------------------------- strings and tokenizers
\* Strings are sequences of one-character strings.
Range(f) == {f[i] : i \in DOMAIN f}
Max(a, b) == IF a >= b THEN a ELSE b
Min(a, b) == IF a <= b THEN a ELSE b

RECURSIVE Sum(_)
Sum(q) == IF q = << >> THEN 0 ELSE Head(q) + Sum(Tail(q))

RECURSIVE Concat(_)
Concat(qq) == IF qq = << >> THEN << >> ELSE Head(qq) \o Concat(Tail(qq))

DigitChars == <<"0", "1", "2", "3", "4", "5", "6", "7", "8", "9">>

\* seq[k:] of Python, for any integer k
PySliceFrom(q, k) ==
    LET start == IF k < 0 THEN Max(Len(q) + k, 0) ELSE Min(k, Len(q))
    IN SubSeq(q, start + 1, Len(q))

\* seq[:-1] of Python
PyDropLast(q) == SubSeq(q, 1, Len(q) - 1)

\* LlamaTokenizer.from_pretrained (line 21) is an external object; three
\* vocabularies stand for it: a sentencepiece one (dummy prefix token, no
\* space token), a character one without ";" and a bare one that lacks the
\* special tokens and the digits 6-9.
BaseTokenizers ==
    { [vocab |-> <<"<unk>", "<s>", "</s>", "_", "0", "1", "2", "3", "4", "5",
                   "6", "7", "8", "9", ",", ";", "a">>,
       bos_token |-> "<s>", eos_token |-> "</s>", unk_token |-> "<unk>",
       prefix |-> TRUE],
      [vocab |-> <<"<s>", "</s>", "<unk>", "0", "1", "2", "3", "4", "5",
                   "6", "7", "8", "9", ",", " ">>,
       bos_token |-> "<s>", eos_token |-> "</s>", unk_token |-> "<unk>",
       prefix |-> FALSE],
      [vocab |-> <<"0", "1", "2", "3", "4", "5", ",", ";", "x">>,
       bos_token |-> "", eos_token |-> "", unk_token |-> "",
       prefix |-> FALSE] }

\* lines 20-35, get_tokenizer: missing special tokens are appended to the
\* vocabulary in the order eos, bos, unk; pad_token is eos_token.
get_tokenizer(base) ==
    LET eos == IF base.eos_token = "" THEN <<"</s>">> ELSE << >>
        bos == IF base.bos_token = "" THEN <<"<s>">> ELSE << >>
        unk == IF base.unk_token = "" THEN <<"<unk>">> ELSE << >>
        e == IF base.eos_token = "" THEN "</s>" ELSE base.eos_token
    IN [vocab |-> base.vocab \o eos \o bos \o unk,
        bos_token |-> IF base.bos_token = "" THEN "<s>" ELSE base.bos_token,
        eos_token |-> e,
        unk_token |-> IF base.unk_token = "" THEN "<unk>" ELSE base.unk_token,
        pad_token |-> e,
        prefix |-> base.prefix]

NoTokenizer == get_tokenizer([vocab |-> << >>, bos_token |-> "", eos_token |-> "",
                              unk_token |-> "", prefix |-> FALSE])

\* len(tokenizer)
VocabSize(tk) == Len(tk.vocab)

\* token ids are 0-based positions in the vocabulary
TokenId(tk, token) == (CHOOSE i \in 1..Len(tk.vocab) : tk.vocab[i] = token) - 1

\* tokenizer.convert_tokens_to_ids(token): unknown tokens give the unk id
convert_tokens_to_ids(tk, token) ==
    IF token \in Range(tk.vocab) THEN TokenId(tk, token) ELSE TokenId(tk, tk.unk_token)

SpecialIds(tk) == {TokenId(tk, tk.bos_token), TokenId(tk, tk.eos_token),
                   TokenId(tk, tk.unk_token)}

\* tokenizer(str)['input_ids'] with add_special_tokens=True (the default):
\* the BOS id, the dummy prefix of a sentencepiece vocabulary, one id per
\* character.
Tokenize(tk, str) ==
    <<TokenId(tk, tk.bos_token)>>
    \o (IF tk.prefix /\ str # << >> THEN <<TokenId(tk, "_")>> ELSE << >>)
    \o [i \in 1..Len(str) |-> convert_tokens_to_ids(tk, str[i])]

\* tokenizer.batch_decode on a 1-D tensor: one string per id (lines 95-99)
DecodeIds(tk, ids) == [i \in 1..Len(ids) |-> tk.vocab[ids[i] + 1]]

\* tokenizer.batch_decode on one row with skip_special_tokens=True (155-159)
RECURSIVE DecodeRow(_, _)
DecodeRow(tk, ids) ==
    IF ids = << >> THEN << >>
    ELSE (IF Head(ids) \in SpecialIds(tk) THEN << >> ELSE <<tk.vocab[Head(ids) + 1]>>)
         \o DecodeRow(tk, Tail(ids))

\* str.split(sep): non-overlapping occurrences of sep, scanned left to right
RECURSIVE CountSep(_, _, _)
CountSep(str, sep, i) ==
    IF i + Len(sep) - 1 > Len(str) THEN 0
    ELSE IF SubSeq(str, i, i + Len(sep) - 1) = sep
         THEN 1 + CountSep(str, sep, i + Len(sep))
         ELSE CountSep(str, sep, i + 1)

\* len(input_str.split(settings.time_sep)), line 125
SplitCount_nonempty(str, sep) ==
    LET n == CountSep(str, sep, 1)
    IN IF str # << >> /\ Len(str) >= Len(sep)
          /\ SubSeq(str, Len(str) - Len(sep) + 1, Len(str)) = sep
       THEN n ELSE n + 1
SplitCount(str, sep) == CountSep(str, sep, 1) + 1

\* decimal digits of a natural number
RECURSIVE Digits(_)
Digits(x) == IF x < 10 THEN <<DigitChars[x + 1]>>
             ELSE Digits(x \div 10) \o <<DigitChars[(x % 10) + 1]>>

\* serialize_arr (data/serialize.py): every element as its digits followed by
\* the time separator
serialize_arr(arr, time_sep) ==
    Concat([i \in 1..Len(arr) |-> Digits(arr[i]) \o time_sep])

\* the transforms callers pass: identity and a scaling
Transforms == {"identity", "triple"}
Transform(tr, x) == IF tr = "triple" THEN 3 * x ELSE x
\* ln of the derivative, to the nearest integer (ln 1 = 0, ln 3 = 1.1)
LogGrad(tr, x) == IF tr = "triple" THEN 1 ELSE 0

\* lines 86-87 and 141-142
GoodTokens(tk, time_sep) ==
    LET good_tokens_str == DigitChars \o time_sep
    IN [i \in 1..Len(good_tokens_str) |-> convert_tokens_to_ids(tk, good_tokens_str[i])]

\* lines 88 and 144: ascending ids of range(len(tokenizer)) not in good_tokens
RECURSIVE FilterRange(_, _, _)
FilterRange(lo, hi, excl) ==
    IF lo >= hi THEN << >>
    ELSE (IF lo \in excl THEN << >> ELSE <<lo>>) \o FilterRange(lo + 1, hi, excl)

BadTokens_shortrange(tk, good_tokens) == FilterRange(0, VocabSize(tk) - 1, Range(good_tokens))
BadTokens(tk, good_tokens) == FilterRange(0, VocabSize(tk), Range(good_tokens))

\* model(**batch), line 84: logits[p][v] for each position p of the input and
\* each vocabulary id v; the weights are external, a seed picks one output.
Forward(seed, n, V) ==
    [p \in 1..n |-> [v \in 0..(V - 1) |-> ((seed + 3 * p + 2 * v + p * v) % 5) - 2]]

\* line 89: out['logits'][:,:,bad_tokens] = -100
MaskLogits(logits, bad_tokens) ==
    [p \in 1..Len(logits) |->
        [v \in DOMAIN logits[p] |-> IF v \in Range(bad_tokens) THEN -100 ELSE logits[p][v]]]

\* log_softmax over one row, line 92: row - logsumexp(row), with the
\* logsumexp taken as the row maximum (integer arithmetic)
RowMax(row) == CHOOSE m \in Range(row) : \A x \in Range(row) : x <= m
LogSoftmax(row) == [v \in DOMAIN row |-> row[v] - RowMax(row)]

\* lines 91-93: the ids without BOS, the distributions without the last
\* position, and the log-probability each remaining position gives to the id
\* that follows it
AlignLogprobs_dropfirst(logits, batch_ids) ==
    LET input_ids == Tail(batch_ids)
        logprobs == Tail([p \in 1..Len(logits) |-> LogSoftmax(logits[p])])
    IN [i \in 1..Len(input_ids) |-> logprobs[i][input_ids[i]]]
AlignLogprobs(logits, batch_ids) ==
    LET input_ids == Tail(batch_ids)
        logprobs == PyDropLast([p \in 1..Len(logits) |-> LogSoftmax(logits[p])])
    IN [i \in 1..Len(input_ids) |-> logprobs[i][input_ids[i]]]

\* numpy division and mean: a zero divisor gives inf or nan with a warning,
\* never an exception
NpDivide(x, n) == IF n = 0 THEN [finite |-> FALSE, val |-> 0]
                  ELSE [finite |-> TRUE, val |-> x \div n]

RECURSIVE Pow2(_)
Pow2(k) == IF k <= 0 THEN 1 ELSE 2 * Pow2(k - 1)

\* 2^k mod m
RECURSIVE PowMod2(_, _)
PowMod2(k, m) == IF k <= 0 THEN 1 % m ELSE (2 * PowMod2(k - 1, m)) % m

\* floor(log2(a / b)) for integers a, b >= 1
RECURSIVE QLog2Up(_, _)
QLog2Up(a, b) == IF 2 * b > a THEN 0 ELSE 1 + QLog2Up(a, 2 * b)
RECURSIVE QLog2Down(_, _)
QLog2Down(a, b) == IF a >= b THEN 0 ELSE 1 + QLog2Down(2 * a, b)
QLog2(a, b) == IF a >= b THEN QLog2Up(a, b) ELSE 0 - QLog2Down(a, b)

\* lines 125-126: int(len(ids) / len(split) * steps), in IEEE double
\* arithmetic as Python computes it. The quotient q = ntokens / nsplit is
\* rounded to 53 bits, the product q * steps is rounded again and int()
\* truncates. With x the exact value ntokens * steps / nsplit: when x is not
\* a whole number the two roundings (relative error 2^-52) cannot move it
\* across an integer, and the result is floor(x). When x is a whole number
\* the result is x unless the quotient was rounded down (rho, the remainder
\* of ntokens * 2^(52-eq) by nsplit, is non-zero and below nsplit / 2) and
\* the shortfall steps * rho / (nsplit * 2^(52-eq)) exceeds half the spacing
\* of the doubles just below x; then the product rounds to a double below x
\* and int() gives x - 1. (For nsplit < 2^22 the quotient is never a tie.)
MaxTokens(ntokens, nsplit, steps) ==
    LET x == (ntokens * steps) \div nsplit
        whole == (ntokens * steps) % nsplit = 0
        eq == QLog2(ntokens, nsplit)
        rho == (ntokens * PowMod2(52 - eq, nsplit)) % nsplit
        en == QLog2(x, 1)
        w == IF x = Pow2(en) THEN 2 ELSE 1
    IN IF x = 0 \/ ~whole \/ rho = 0 \/ 2 * rho >= nsplit THEN x
       ELSE IF en >= eq
            THEN (IF 2 * steps * rho * w > nsplit * Pow2(en - eq) THEN x - 1 ELSE x)
            ELSE (IF 2 * steps * rho * w * Pow2(eq - en) > nsplit THEN x - 1 ELSE x)

EmptyFn == [op |-> "none"]

InitCache ==
    /\ loaded = << >>
    /\ pc = [t \in Threads |-> "idle"]
    /\ op = [t \in Threads |-> "resolve"]
    /\ name = [t \in Threads |-> "fingpt"]
    /\ cache_model = [t \in Threads |-> FALSE]
    /\ tokenizer = [t \in Threads |-> None]
    /\ model = [t \in Threads |-> None]
    /\ ret = [t \in Threads |-> NoHandle]
    /\ err = [t \in Threads |-> "none"]
    /\ calls = 0
    /\ nextObj = 1
    /\ hit = [t \in Threads |-> FALSE]
    /\ ntoks = [t \in Threads |-> 0]
    /\ nloads = [t \in Threads |-> 0]

Init ==
    /\ InitCache
    /\ fpc = "off"
    /\ fn = EmptyFn

\* A thread enters resolve (get_model_and_tokenizer), evaluate (fingpt_nll_fn,
\* whose first statement, line 70, is the resolve) or sample
\* (fingpt_completion_fn, which tokenizes at line 125 before resolving at 128).
Call(t) ==
    /\ pc[t] \in {"idle", "done"}
    /\ calls < MaxCalls
    /\ \E o \in Ops, n \in Names, c \in BOOLEAN :
        /\ op' = [op EXCEPT ![t] = o]
        /\ name' = [name EXCEPT ![t] = n]
        /\ cache_model' = [cache_model EXCEPT ![t] = c]
        /\ pc' = [pc EXCEPT ![t] = IF o = "completion" THEN "tokenize_fn" ELSE "check"]
    /\ calls' = calls + 1
    /\ tokenizer' = [tokenizer EXCEPT ![t] = None]
    /\ model' = [model EXCEPT ![t] = None]
    /\ ret' = [ret EXCEPT ![t] = NoHandle]
    /\ err' = [err EXCEPT ![t] = "none"]
    /\ hit' = [hit EXCEPT ![t] = FALSE]
    /\ ntoks' = [ntoks EXCEPT ![t] = 0]
    /\ nloads' = [nloads EXCEPT ![t] = 0]
    /\ UNCHANGED <<loaded, nextObj>>

\* lines 125-126 (tokenize_fn, lines 56-58): a throwaway tokenizer is built to
\* count tokens; `loaded` is not read or written.
TokenizeFn(t) ==
    /\ pc[t] = "tokenize_fn"
    /\ pc' = [pc EXCEPT ![t] = "check"]
    /\ UNCHANGED <<loaded, op, name, cache_model, tokenizer, model, ret, err,
                   calls, nextObj, hit, ntoks, nloads>>

\* line 38
Check(t) ==
    /\ pc[t] = "check"
    /\ hit' = [hit EXCEPT ![t] = name[t] \in DOMAIN loaded]
    /\ pc' = [pc EXCEPT ![t] = IF InLoaded(loaded, name[t]) THEN "hit" ELSE "get_tokenizer"]
    /\ UNCHANGED <<loaded, op, name, cache_model, tokenizer, model, ret, err,
                   calls, nextObj, ntoks, nloads>>

AfterResolve(t) == IF op[t] = "resolve" THEN "done" ELSE "body"

\* line 39: the subscript raises KeyError when the key is gone
Hit(t) ==
    /\ pc[t] = "hit"
    /\ IF name[t] \in DOMAIN loaded
       THEN /\ ret' = [ret EXCEPT ![t] = CacheLookup(loaded, name[t])]
            /\ pc' = [pc EXCEPT ![t] = AfterResolve(t)]
            /\ err' = err
       ELSE /\ err' = [err EXCEPT ![t] = "KeyError"]
            /\ pc' = [pc EXCEPT ![t] = "done"]
            /\ ret' = ret
    /\ UNCHANGED <<loaded, op, name, cache_model, tokenizer, model, calls,
                   nextObj, hit, ntoks, nloads>>

\* line 41
GetTokenizer(t) ==
    /\ pc[t] = "get_tokenizer"
    /\ tokenizer' = [tokenizer EXCEPT ![t] = NewTokenizer(nextObj)]
    /\ nextObj' = nextObj + 1
    /\ ntoks' = [ntoks EXCEPT ![t] = @ + 1]
    /\ pc' = [pc EXCEPT ![t] = "load"]
    /\ UNCHANGED <<loaded, op, name, cache_model, model, ret, err, calls, hit, nloads>>

\* lines 42-51
Load(t) ==
    /\ pc[t] = "load"
    /\ model' = [model EXCEPT ![t] = LoadModel(nextObj)]
    /\ nextObj' = nextObj + 1
    /\ nloads' = [nloads EXCEPT ![t] = @ + 1]
    /\ pc' = [pc EXCEPT ![t] = "store"]
    /\ UNCHANGED <<loaded, op, name, cache_model, tokenizer, ret, err, calls, hit, ntoks>>

\* lines 52-54
Store(t) ==
    /\ pc[t] = "store"
    /\ loaded' = CacheStore(loaded, name[t], <<model[t], tokenizer[t]>>, cache_model[t])
    /\ ret' = [ret EXCEPT ![t] = <<model[t], tokenizer[t]>>]
    /\ pc' = [pc EXCEPT ![t] = AfterResolve(t)]
    /\ UNCHANGED <<op, name, cache_model, tokenizer, model, err, calls,
                   nextObj, hit, ntoks, nloads>>

\* lines 72-112 of fingpt_nll_fn, lines 130-160 of fingpt_completion_fn: the
\* rest of the call works on the returned pair and never touches `loaded`
\* (SpecFn models these statements one by one).
Body(t) ==
    /\ pc[t] = "body"
    /\ pc' = [pc EXCEPT ![t] = "done"]
    /\ UNCHANGED <<loaded, op, name, cache_model, tokenizer, model, ret, err,
                   calls, nextObj, hit, ntoks, nloads>>

Step(t) ==
    \/ TokenizeFn(t)
    \/ Check(t)
    \/ Hit(t)
    \/ GetTokenizer(t)
    \/ Load(t)
    \/ Store(t)
    \/ Body(t)

Next ==
    \/ \E t \in Threads : Call(t) /\ UNCHANGED fnVars
    \/ \E t \in Threads : TokenizeFn(t) /\ UNCHANGED fnVars
    \/ \E t \in Threads : Check(t) /\ UNCHANGED fnVars
    \/ \E t \in Threads : Hit(t) /\ UNCHANGED fnVars
    \/ \E t \in Threads : GetTokenizer(t) /\ UNCHANGED fnVars
    \/ \E t \in Threads : Load(t) /\ UNCHANGED fnVars
    \/ \E t \in Threads : Store(t) /\ UNCHANGED fnVars
    \/ \E t \in Threads : Body(t) /\ UNCHANGED fnVars

Spec == Init /\ [][Next]_vars

\* ---------------------------------- one call of evaluate or sample (SpecFn)
TimeSeps == {<<",">>, <<";">>, <<" ", ",">>, <<",", ",">>}
InputArrs == {<< >>, <<7>>, <<1, 42>>}
TargetArrs == {<< >>, <<3>>, <<5, 10>>}
Seeds == {0, 1}
InputStrs == {<<"1", ",", "2", ",", "3", ";">>, <<"1", ",", "2", ",", "3">>,
              << >>, <<"1", "2", ";", "7", ";">>,
              <<"1", "2", "3", "4", "5", ";", "1", "2", "3", "4", "5", ";">>}
StepsSet == {0, 3, 6, 27}
\* (num_samples, batch_size)
SampleSizes == {<<20, 5>>, <<22, 5>>, <<3, 5>>, <<0, 5>>, <<3, 1>>, <<0, 1>>, <<7, 4>>}

PreloadedHandle == <<LoadModel(2), NewTokenizer(1)>>

FnDefaults ==
    [op |-> "none", model_name |-> "fingpt", cache_model |-> TRUE,
     base |-> CHOOSE b \in BaseTokenizers : b.prefix, time_sep |-> <<",">>,
     tk |-> NoTokenizer, good_tokens |-> << >>, bad_tokens |-> << >>,
     raised |-> "none",
     transform |-> "identity", input_arr |-> << >>, target_arr |-> << >>, seed |-> 0,
     input_str |-> << >>, target_str |-> << >>, full_series |-> << >>,
     batch_ids |-> << >>, logits |-> << >>, input_ids |-> << >>,
     logprobs |-> << >>, tokens |-> << >>, input_len |-> 0,
     BPD |-> [finite |-> TRUE, val |-> 0], result |-> [finite |-> TRUE, val |-> 0],
     steps |-> 0, batch_size |-> 1, num_samples |-> 0,
     ntokens |-> 0, nsplit |-> 1, max_tokens |-> 0, i |-> 0,
     num_input_ids |-> 0, generate_ids |-> << >>, gen_strs |-> << >>]

InitFn ==
    /\ pc = [t \in Threads |-> "idle"]
    /\ op = [t \in Threads |-> "resolve"]
    /\ name = [t \in Threads |-> "fingpt"]
    /\ cache_model = [t \in Threads |-> FALSE]
    /\ tokenizer = [t \in Threads |-> None]
    /\ model = [t \in Threads |-> None]
    /\ ret = [t \in Threads |-> NoHandle]
    /\ err = [t \in Threads |-> "none"]
    /\ calls = 0
    /\ hit = [t \in Threads |-> FALSE]
    /\ ntoks = [t \in Threads |-> 0]
    /\ nloads = [t \in Threads |-> 0]
    /\ \/ loaded = << >> /\ nextObj = 1
       \/ loaded = [n \in {"fingpt"} |-> PreloadedHandle] /\ nextObj = 3
    /\ \E b \in BaseTokenizers, sep \in TimeSeps, c \in BOOLEAN :
        \/ \E tr \in Transforms, ia \in InputArrs, ta \in TargetArrs, sd \in Seeds :
            /\ fn = [FnDefaults EXCEPT !.op = "nll", !.base = b, !.time_sep = sep,
                        !.cache_model = c, !.transform = tr, !.input_arr = ia,
                        !.target_arr = ta, !.seed = sd]
            /\ fpc = "resolve"
        \/ \E str \in InputStrs, st \in StepsSet, sz \in SampleSizes :
            /\ fn = [FnDefaults EXCEPT !.op = "completion", !.base = b, !.time_sep = sep,
                        !.cache_model = c, !.input_str = str, !.steps = st,
                        !.num_samples = sz[1], !.batch_size = sz[2]]
            /\ fpc = "budget"

frameVars == <<pc, op, name, cache_model, calls, err>>

\* lines 125-126: tokenize_fn builds its own tokenizer (lines 56-58)
S_Budget ==
    /\ fpc = "budget"
    /\ LET tk == get_tokenizer(fn.base)
           nt == Len(Tokenize(tk, fn.input_str))
           ns == SplitCount(fn.input_str, fn.time_sep)
       IN fn' = [fn EXCEPT !.ntokens = nt, !.nsplit = ns,
                           !.max_tokens = MaxTokens(nt, ns, fn.steps)]
    /\ fpc' = "resolve"
    /\ UNCHANGED cacheVars

\* line 70 (fingpt_nll_fn) and line 128 (fingpt_completion_fn): the whole of
\* get_model_and_tokenizer, lines 37-54, run by thread 1 with no other thread
F_Resolve ==
    /\ fpc = "resolve"
    /\ hit' = [hit EXCEPT ![1] = fn.model_name \in DOMAIN loaded]
    /\ IF InLoaded(loaded, fn.model_name)
       THEN /\ ret' = [ret EXCEPT ![1] = CacheLookup(loaded, fn.model_name)]
            /\ UNCHANGED <<loaded, tokenizer, model, nextObj, ntoks, nloads>>
       ELSE /\ tokenizer' = [tokenizer EXCEPT ![1] = NewTokenizer(nextObj)]
            /\ model' = [model EXCEPT ![1] = LoadModel(nextObj + 1)]
            /\ nextObj' = nextObj + 2
            /\ ntoks' = [ntoks EXCEPT ![1] = 1]
            /\ nloads' = [nloads EXCEPT ![1] = 1]
            /\ loaded' = CacheStore(loaded, fn.model_name,
                                    <<model'[1], tokenizer'[1]>>, fn.cache_model)
            /\ ret' = [ret EXCEPT ![1] = <<model'[1], tokenizer'[1]>>]
    /\ fn' = [fn EXCEPT !.tk = get_tokenizer(fn.base)]
    /\ fpc' = IF fn.op = "nll" THEN "serialize" ELSE "loop"
    /\ UNCHANGED frameVars

\* lines 72-74
N_Serialize ==
    /\ fpc = "serialize"
    /\ LET tin == [k \in 1..Len(fn.input_arr) |-> Transform(fn.transform, fn.input_arr[k])]
           ttg == [k \in 1..Len(fn.target_arr) |-> Transform(fn.transform, fn.target_arr[k])]
           istr == serialize_arr(tin, fn.time_sep)
           tstr == serialize_arr(ttg, fn.time_sep)
       IN fn' = [fn EXCEPT !.input_str = istr, !.target_str = tstr,
                           !.full_series = istr \o tstr]
    /\ fpc' = "tokenize"
    /\ UNCHANGED cacheVars

\* lines 76-81
N_Tokenize ==
    /\ fpc = "tokenize"
    /\ fn' = [fn EXCEPT !.batch_ids = Tokenize(fn.tk, fn.full_series)]
    /\ fpc' = "forward"
    /\ UNCHANGED cacheVars

\* lines 83-84
N_Forward ==
    /\ fpc = "forward"
    /\ fn' = [fn EXCEPT !.logits = Forward(fn.seed, Len(fn.batch_ids), VocabSize(fn.tk))]
    /\ fpc' = "mask"
    /\ UNCHANGED cacheVars

\* lines 86-89
N_Mask ==
    /\ fpc = "mask"
    /\ LET good == GoodTokens(fn.tk, fn.time_sep)
           bad == BadTokens(fn.tk, good)
       IN fn' = [fn EXCEPT !.good_tokens = good, !.bad_tokens = bad,
                           !.logits = MaskLogits(fn.logits, bad)]
    /\ fpc' = "align"
    /\ UNCHANGED cacheVars

\* lines 91-93
N_Align ==
    /\ fpc = "align"
    /\ fn' = [fn EXCEPT !.input_ids = Tail(fn.batch_ids),
                        !.logprobs = AlignLogprobs(fn.logits, fn.batch_ids)]
    /\ fpc' = "decode"
    /\ UNCHANGED cacheVars

\* lines 95-99
N_Decode ==
    /\ fpc = "decode"
    /\ fn' = [fn EXCEPT !.tokens = DecodeIds(fn.tk, fn.input_ids)]
    /\ fpc' = "offset"
    /\ UNCHANGED cacheVars

\* lines 101-102
InputLen(tk, input_str) == Len(Tokenize(tk, input_str)) - 2

\* lines 101-105
N_Offset ==
    /\ fpc = "offset"
    /\ LET input_len == InputLen(fn.tk, fn.input_str)
       IN fn' = [fn EXCEPT !.input_len = input_len,
                           !.logprobs = PySliceFrom(fn.logprobs, input_len),
                           !.tokens = PySliceFrom(fn.tokens, input_len)]
    /\ fpc' = "bpd"
    /\ UNCHANGED cacheVars

\* lines 106-112: no statement of the function raises on an empty target
N_Return ==
    /\ fpc = "bpd"
    /\ LET n == Len(fn.target_arr)
           BPD == NpDivide(0 - Sum(fn.logprobs), n)
           logdet == NpDivide(Sum([k \in 1..n |-> LogGrad(fn.transform, fn.target_arr[k])]), n)
       IN fn' = [fn EXCEPT !.BPD = BPD,
                           !.result = [finite |-> BPD.finite /\ logdet.finite,
                                       val |-> BPD.val - logdet.val]]
    /\ fpc' = "done"
    /\ UNCHANGED cacheVars

\* line 131: range(num_samples // batch_size)
Rounds(num_samples, batch_size) == num_samples \div batch_size

\* line 131, and line 160 when the range is exhausted
S_Loop ==
    /\ fpc = "loop"
    /\ fpc' = IF fn.i < Rounds(fn.num_samples, fn.batch_size) THEN "prompt" ELSE "done"
    /\ UNCHANGED <<fn, cacheVars>>

\* lines 132-139
S_Prompt ==
    /\ fpc = "prompt"
    /\ LET ids == Tokenize(fn.tk, fn.input_str)
       IN fn' = [fn EXCEPT !.batch_ids = [r \in 1..fn.batch_size |-> ids],
                           !.num_input_ids = Len(ids)]
    /\ fpc' = "smask"
    /\ UNCHANGED cacheVars

\* lines 141-144
S_Mask ==
    /\ fpc = "smask"
    /\ LET good == GoodTokens(fn.tk, fn.time_sep)
       IN fn' = [fn EXCEPT !.good_tokens = good, !.bad_tokens = BadTokens(fn.tk, good)]
    /\ fpc' = "generate"
    /\ UNCHANGED cacheVars

\* lines 146-154: every row is its prompt followed by new tokens, none of
\* them a bad token, at most max_tokens of them (and at most MaxGen here);
\* the sampled token is the generator's choice
S_Generate ==
    /\ fpc = "generate"
    /\ \E g \in {fn.good_tokens[1], fn.good_tokens[Len(fn.good_tokens)]} :
        fn' = [fn EXCEPT !.generate_ids =
                  [r \in 1..fn.batch_size |->
                      fn.batch_ids[r] \o [k \in 1..Min(fn.max_tokens, MaxGen) |-> g]]]
    /\ fpc' = "sdecode"
    /\ UNCHANGED cacheVars

\* lines 155-159
S_Decode ==
    /\ fpc = "sdecode"
    /\ fn' = [fn EXCEPT !.gen_strs = @ \o
                  [r \in 1..fn.batch_size |->
                      DecodeRow(fn.tk, PySliceFrom(fn.generate_ids[r], fn.num_input_ids))],
                        !.i = @ + 1]
    /\ fpc' = "loop"
    /\ UNCHANGED cacheVars

NextFn ==
    \/ S_Budget
    \/ F_Resolve
    \/ N_Serialize
    \/ N_Tokenize
    \/ N_Forward
    \/ N_Mask
    \/ N_Align
    \/ N_Decode
    \/ N_Offset
    \/ N_Return
    \/ S_Loop
    \/ S_Prompt
    \/ S_Mask
    \/ S_Generate
    \/ S_Decode

SpecFn == InitFn /\ [][NextFn]_vars

\* ------------------------------------------------- claims about the cache
Returned(t) == pc[t] \in {"body", "done"}
CheckStep(t) == pc[t] = "check" /\ pc'[t] # "check"
HitStep(t) == pc[t] = "hit" /\ pc'[t] # "hit"
StoreStep(t) == pc[t] = "store" /\ pc'[t] # "store"
Complete(h) ==
    /\ h[1].id > 0 /\ h[1].adapter /\ h[1].eval
    /\ h[2].id > 0 /\ h[2].pad_is_eos

\* C2: a resolve with cache=true that finds its identifier in `loaded` goes
\* straight to the lookup, returns exactly the stored pair, constructs no
\* tokenizer, loads no model and leaves `loaded` as it was.
C2_CachedResolveReturnsStored ==
    [][\A t \in Threads : cache_model[t] =>
        /\ (CheckStep(t) /\ name[t] \in DOMAIN loaded) =>
              /\ pc'[t] = "hit"
              /\ loaded' = loaded /\ nextObj' = nextObj
        /\ HitStep(t) =>
              /\ ret'[t] = loaded[name[t]] /\ err'[t] = "none"
              /\ pc'[t] = AfterResolve(t)
              /\ loaded' = loaded /\ nextObj' = nextObj
              /\ ntoks'[t] = 0 /\ nloads'[t] = 0]_vars

C2_Witness ==
    \E t \in Threads :
        /\ pc[t] = "done" /\ op[t] = "resolve" /\ cache_model[t] /\ hit[t]
        /\ ret[t] = loaded[name[t]] /\ ntoks[t] = 0 /\ nloads[t] = 0

\* C3 as stated: every resolve with cache=false that has returned built a
\* fresh tokenizer and loaded a model during the call.
C3_UncachedResolveAlwaysLoads ==
    \A t \in Threads :
        (Returned(t) /\ ~cache_model[t]) => (ntoks[t] = 1 /\ nloads[t] = 1)

\* C3 amended: the lookup ignores the cache flag. A resolve with cache=false
\* returns the stored pair without constructing anything when the identifier
\* is in `loaded`, builds a fresh tokenizer and model only when it is not,
\* and never writes `loaded`.
C3_UncachedResolveLoadsOnlyOnMiss ==
    [][\A t \in Threads : ~cache_model[t] =>
        /\ CheckStep(t) =>
              pc'[t] = (IF name[t] \in DOMAIN loaded THEN "hit" ELSE "get_tokenizer")
        /\ HitStep(t) =>
              /\ ret'[t] = loaded[name[t]]
              /\ ntoks'[t] = 0 /\ nloads'[t] = 0
              /\ loaded' = loaded
        /\ StoreStep(t) =>
              /\ ntoks'[t] = 1 /\ nloads'[t] = 1
              /\ ret'[t] = <<model[t], tokenizer[t]>>
              /\ loaded' = loaded]_vars

C3_Witness ==
    \E t \in Threads :
        /\ Returned(t) /\ ~cache_model[t] /\ hit[t]
        /\ ret[t] = loaded[name[t]] /\ ntoks[t] = 0 /\ nloads[t] = 0

\* C9: two threads resolving the same uncached identifier with cache=true may
\* both load, and the race is harmless: every call that has returned holds a
\* completely loaded (model, tokenizer) pair and raised nothing, a thread inside
\* a call can always take its next step whatever the other thread is doing,
\* and once both have returned `loaded` holds one pair for the identifier,
\* the one some call returned.
C9_RaceHarmless ==
    /\ \A t \in Threads : Returned(t) => (err[t] = "none" /\ Complete(ret[t]))
    /\ \A t \in Threads : pc[t] \notin {"idle", "done"} => ENABLED Step(t)
    /\ \A t \in Threads : pc[t] = "done" => err[t] = "none"
    /\ (/\ \A t \in Threads : pc[t] = "done" /\ cache_model[t]
        /\ name[1] = name[2])
       => (/\ name[1] \in DOMAIN loaded
           /\ loaded[name[1]] \in {ret[1], ret[2]})

C9_Witness ==
    /\ \A t \in Threads :
          pc[t] = "done" /\ cache_model[t] /\ ~hit[t] /\ ntoks[t] = 1 /\ nloads[t] = 1
    /\ name[1] = name[2]
    /\ ret[1] # ret[2]
    /\ loaded[name[1]] \in {ret[1], ret[2]}

\* C10 as stated: an entry of `loaded`, once present, is the same pair in
\* every later state.
C10_EntryNeverChanges ==
    [][\A n \in DOMAIN loaded : n \in DOMAIN loaded' /\ loaded'[n] = loaded[n]]_vars

\* C10 amended: an entry of `loaded` is never removed, and it is replaced
\* only by the store of a call with cache=true that looked the identifier up
\* before the entry was stored (the duplicate load of two racing first-time
\* resolves); no other step changes it.
C10_EntryNeverRemoved ==
    [][\A n \in DOMAIN loaded :
         /\ n \in DOMAIN loaded'
         /\ loaded'[n] # loaded[n] =>
               \E t \in Threads :
                  /\ StoreStep(t) /\ name[t] = n /\ cache_model[t] /\ ~hit[t]
                  /\ loaded'[n] = <<model[t], tokenizer[t]>>]_vars

C10_Witness ==
    /\ DOMAIN loaded = Names
    /\ \E t \in Threads : pc[t] = "done" /\ ~hit[t] /\ cache_model[t]
                          /\ loaded[name[t]] # ret[t]

\* ------------------------------------- claims about evaluate and sample
CeilDiv(a, b) == (a + b - 1) \div b
ExampleStr == <<"1", ",", "2", ",", "3", ";">>

\* C1 as stated: sample returns batch_size * ceil(num_samples / batch_size)
\* strings, from ceil(num_samples / batch_size) rounds.
C1_LengthIsCeilRounds ==
    (fpc = "done" /\ fn.op = "completion") =>
        /\ fn.i = CeilDiv(fn.num_samples, fn.batch_size)
        /\ Len(fn.gen_strs) = fn.batch_size * CeilDiv(fn.num_samples, fn.batch_size)

\* C4: whenever evaluate or sample has built its vocabulary mask, the bad ids
\* are pairwise distinct and their number plus the number of distinct good
\* ids (those of the ten digits and of the separator's characters; the list
\* good_tokens may name an id more than once) is the vocabulary size.
C4_MaskCountsAddUp ==
    fn.good_tokens # << >> =>
        /\ Cardinality(Range(fn.bad_tokens)) = Len(fn.bad_tokens)
        /\ Len(fn.bad_tokens) + Cardinality(Range(fn.good_tokens)) = VocabSize(fn.tk)

C4_Witness ==
    /\ fn.op = "completion" /\ fpc = "generate"
    /\ Len(fn.good_tokens) > Cardinality(Range(fn.good_tokens))
    /\ Len(fn.bad_tokens) > 0

\* C5 as stated: evaluate on an empty target raises InvalidInputError and
\* returns nothing; on a target of one element it returns a finite scalar.
C5_EmptyTargetRaises ==
    (fpc = "done" /\ fn.op = "nll") =>
        /\ Len(fn.target_arr) = 0 => fn.raised = "InvalidInputError"
        /\ Len(fn.target_arr) = 1 => (fn.raised = "none" /\ fn.result.finite)

\* C6 as stated: for the context "1,2,3;" with separator ";", steps=6 gives
\* max_tokens equal to twice the token count of the input string.
C6_ExampleDoublesTokenCount ==
    (fn.op = "completion" /\ fpc # "budget" /\ fn.input_str = ExampleStr
       /\ fn.time_sep = <<";">> /\ fn.steps = 6)
    => fn.max_tokens = 2 * Len(Tokenize(get_tokenizer(fn.base), fn.input_str))

\* C6 amended: max_tokens is int((T / P) * steps) in double arithmetic, T the
\* number of token ids of input_str (BOS included) and P the number of pieces
\* input_str.split(separator) gives, one more than the separator occurs. It is
\* floor(T * steps / P), or one less in some cases where T * steps / P is a
\* whole number (T = 13, P = 3, steps = 27 gives 116). For "1,2,3;" and
\* steps=6 it is three times the token count with separator ";" (P = 2) and
\* twice the token count with separator "," (P = 3).
C6_BudgetFromSplitPieces ==
    (fn.op = "completion" /\ fpc # "budget") =>
        LET T == Len(Tokenize(get_tokenizer(fn.base), fn.input_str))
            P == CountSep(fn.input_str, fn.time_sep, 1) + 1
            x == (T * fn.steps) \div P
        IN /\ fn.ntokens = T /\ fn.nsplit = P
           /\ fn.max_tokens \in {x - 1, x}
           /\ (T * fn.steps) % P # 0 => fn.max_tokens = x
           /\ (T = 13 /\ P = 3 /\ fn.steps = 27) => fn.max_tokens = 116
           /\ (fn.input_str = ExampleStr /\ fn.steps = 6) =>
                 /\ fn.time_sep = <<";">> => fn.max_tokens = 3 * T
                 /\ fn.time_sep = <<",">> => fn.max_tokens = 2 * T

C6_Witness ==
    /\ fn.op = "completion" /\ fpc = "resolve"
    /\ fn.input_str = ExampleStr /\ fn.time_sep = <<";">> /\ fn.steps = 6
    /\ fn.nsplit = 2
    /\ fn.max_tokens = 3 * fn.ntokens

\* C7 as stated: with a tokenizer that prepends one BOS token and no prefix
\* token, and non-empty context and target, the log-probabilities kept after
\* the context offset are those of the target tokens, one per target token.
C7_OnlyTargetLogprobsKept ==
    (fn.op = "nll" /\ fpc \in {"bpd", "done"} /\ ~fn.tk.prefix
       /\ fn.input_str # << >> /\ fn.target_str # << >>)
    => /\ Len(fn.logprobs) = Len(Tokenize(fn.tk, fn.target_str)) - 1
       /\ fn.tokens = DecodeIds(fn.tk, Tail(Tokenize(fn.tk, fn.target_str)))

\* C8: right after the alignment of lines 91-93, for the n+1 input ids (BOS
\* and n more) there are n log-probabilities, and the i-th of them is the
\* log-softmax of the masked logits at position i-1 taken at the id found at
\* position i; the distribution at the last position and the BOS id at
\* position 0 are not used.
C8_TeacherForcingAlignment ==
    (fn.op = "nll" /\ fpc = "decode") =>
        LET n == Len(fn.batch_ids) - 1
        IN /\ Len(fn.logits) = n + 1
           /\ Len(fn.logprobs) = n
           /\ fn.input_ids = [i \in 1..n |-> fn.batch_ids[i + 1]]
           /\ \A i \in 1..n :
                 fn.logprobs[i] = LogSoftmax(fn.logits[i])[fn.batch_ids[i + 1]]

C8_Witness ==
    /\ fn.op = "nll" /\ fpc = "decode"
    /\ Len(fn.batch_ids) >= 4
    /\ \E i \in 1..(Len(fn.batch_ids) - 1) :
          /\ fn.logprobs[i] = LogSoftmax(fn.logits[i])[fn.batch_ids[i + 1]]
          /\ fn.logprobs[i] # LogSoftmax(fn.logits[i + 1])[fn.batch_ids[i + 1]]
          /\ fn.logprobs[i] # LogSoftmax(fn.logits[i])[fn.batch_ids[i]]

====
